---- MODULE Spec2Model ----
(***************************************************************************)
(* Model of the structured-response parsers of berrry-committer and of the *)
(* loop that drives them.                                                  *)
(*                                                                         *)
(*   src/src/robust-file-parser.js  parseAndWriteFiles  (regex parser)     *)
(*   src/src/file-processor.js      parseAndWriteFiles  (line parser, dry  *)
(*                                  run, write loop), runEvalScript        *)
(*   src/tests/test-robust-parser.js, "Fixed robust parser"                *)
(*                                  parseFilesRobust    (stack resolvers)  *)
(*   src/src/llm-client.js          parseAndWriteFiles, isPlaceholderFile, *)
(*                                  isDangerousPath     (classifier)       *)
(*   src/src/main.js                processIssue, executeStep              *)
(*   script.js                      AICoder.run, pushAndCreatePR           *)
(*                                                                         *)
(* A text is a sequence of characters.  The characters of the model are    *)
(* the units the two parsers can tell apart:                               *)
(*   "D"  the three characters ===        "sp"  one space                  *)
(*   "KF" the word FILENAME:              "nl"  one line feed              *)
(*   "KE" the word END:                   "a" "b" "x" "y"  other letters   *)
(* so `=== FILENAME: a ===` is << "D","sp","KF","sp","a","sp","D" >>.      *)
(***************************************************************************)
EXTENDS Integers, Sequences, FiniteSets, TLC

VARIABLES
    codeOutput,     \* the text handed to the parser (the LLM response)
    pc,             \* "ready" | "parsed" (regex parser returned) | "fp_parsed" | "rfp_parsed"
    foundRanges,    \* robust-file-parser.js: first-pass ranges
    outerRanges,    \* robust-file-parser.js: ranges kept by the second pass
    files,          \* robust-file-parser.js: returned list of names
    parsedFiles,    \* robust-file-parser.js: returned name -> content object
    fpFiles,        \* file-processor.js: the parsed {path, content} list
    pass,           \* 1: the given text; 2: the re-wrapped result of pass 1
    firstFile,      \* the single file of pass 1 once it was re-wrapped
    robust,         \* tests/test-robust-parser.js: result of parseFilesRobust
    fixed,          \* the "Fixed robust parser": result of its parseFilesRobust
    filename,       \* llm-client.js: the name handed to a validation function
    content,        \* llm-client.js: the content handed to isPlaceholderFile
    dangerous,      \* llm-client.js: what isDangerousPath(filename) returned
    placeholder,    \* llm-client.js: what isPlaceholderFile(filename, content) returned
    llm,            \* llm-client.js: what parseAndWriteFiles did and returned
    program,        \* the entry point that runs: "main" (main.js), "script" or "none"
    YOLO,           \* process.env.YOLO === 'true'
    GITHUB_ACTIONS, \* !!process.env.GITHUB_ACTIONS
    currentStep,    \* the step counter of the iteration loop
    lpc,            \* where the run stands: "start", "loop", "step", "after", "done", "failed"
    left,           \* how the loop was left: "no", "break" or "budget"
    log,            \* what the run did so far, in order
    dryRun,         \* file-processor.js: options.dryRun
    createDirectories, \* file-processor.js: options.createDirectories
    fault,          \* per parsed file, which call throws: "none", "mkdir", "writeFile"
    disk,           \* the file system: its directories and its files
    returned        \* file-processor.js: what parseAndWriteFiles returned

classVars == << filename, content, dangerous, placeholder, llm >>
loopVars == << program, YOLO, GITHUB_ACTIONS, currentStep, lpc, left, log >>
writeVars == << dryRun, createDirectories, fault, disk, returned >>

vars == << codeOutput, pc, foundRanges, outerRanges, files, parsedFiles,
           fpFiles, pass, firstFile, robust, fixed, classVars, loopVars,
           writeVars >>

(***************************************************************************)
(* Bounds of the explored inputs.                                          *)
(***************************************************************************)
MaxChunks == 4
MaxBlocks == 3
MaxWsLines == 4
MaxStackChunks == 4
MaxPathUnits == 5
MaxContentUnits == 4
MaxClassBlocks == 2
MaxWriteBlocks == 3
MaxEquivChunks == 4

Names == {"a", "b"}
Contents == {"x", "y"}

(***************************************************************************)
(* Strings                                                                 *)
(***************************************************************************)
Min(S) == CHOOSE m \in S : \A o \in S : m <= o
Max(S) == CHOOSE m \in S : \A o \in S : m >= o

\* text t holds the literal lit at index p (1-based)
HasAt(t, p, lit) ==
    /\ p >= 1
    /\ p + Len(lit) - 1 <= Len(t)
    /\ \A i \in 1..Len(lit) : t[p + i - 1] = lit[i]

\* the regex class \s
IsSpace(c) == c \in {"sp", "nl"}

\* (no trimming at all)
trimNone(s) == s

\* String.prototype.trim
trim(s) ==
    LET keep == {i \in 1..Len(s) : ~IsSpace(s[i])}
    IN  IF keep = {} THEN << >> ELSE SubSeq(s, Min(keep), Max(keep))

\* String.prototype.split('\n')
RECURSIVE split(_)
split(t) ==
    LET nls == {i \in 1..Len(t) : t[i] = "nl"}
    IN  IF nls = {} THEN << t >>
        ELSE << SubSeq(t, 1, Min(nls) - 1) >> \o split(SubSeq(t, Min(nls) + 1, Len(t)))

\* Array.prototype.join('\n')
RECURSIVE join(_)
join(ls) ==
    IF Len(ls) = 0 THEN << >>
    ELSE IF Len(ls) = 1 THEN ls[1]
    ELSE ls[1] \o << "nl" >> \o join(Tail(ls))

(***************************************************************************)
(* The regular expression of robust-file-parser.js, line 9:                *)
(*   /=== FILENAME: (.+?) ===\s*\n([\s\S]*?)\n=== END: \1 ===/g            *)
(***************************************************************************)
START_LIT == << "D", "sp", "KF", "sp" >>      \* `=== FILENAME: `
END_LIT   == << "D", "sp", "KE", "sp" >>      \* `=== END: `
CLOSE_LIT == << "sp", "D" >>                  \* ` ===`

\* the index of the first character at or after r that fails the test
\* named by ws ("space": not white space; "line": a line feed), or Len(t) + 1
FirstStop(t, r, ws) ==
    LET stops == {i \in r..Len(t) :
                    IF ws = "space" THEN ~IsSpace(t[i]) ELSE t[i] = "nl"}
    IN  IF stops = {} THEN Len(t) + 1 ELSE Min(stops)

\* (.+?) ===  : the ends q (exclusive) of a capture that starts after the
\* start literal at p, holds no line feed (. matches none) and is followed
\* by ` ===`
NameEnds(t, p) ==
    {q \in (p + 5)..(FirstStop(t, p + 4, "line") - 1) : HasAt(t, q, CLOSE_LIT)}

\* \s*\n  : the indexes k of a line feed reached from r over white space
WsEnds(t, r) ==
    {k \in r..(FirstStop(t, r, "space") - 1) : t[k] = "nl"}

\* \n=== END: \1 ===  : the indexes e >= from of a line feed followed by
\* the end literal, the captured name again (the backreference) and ` ===`
EndAts(t, from, name) ==
    {e \in from..Len(t) :
        /\ t[e] = "nl"
        /\ HasAt(t, e + 1, END_LIT \o name \o CLOSE_LIT)}

NoMatch == [found |-> FALSE]

\* (the same attempt with a greedy content group, [\s\S]* for [\s\S]*?)
MatchAtGreedy(t, p) ==
    IF ~HasAt(t, p, START_LIT) THEN NoMatch
    ELSE
    LET Cap(q) == SubSeq(t, p + 4, q - 1)
        Ks(q)  == {k \in WsEnds(t, q + 2) : EndAts(t, k + 1, Cap(q)) # {}}
        qs     == {q \in NameEnds(t, p) : Ks(q) # {}}
    IN  IF qs = {} THEN NoMatch
        ELSE
        LET q == Min(qs)
            k == Max(Ks(q))
            e == Max(EndAts(t, k + 1, Cap(q)))
        IN  [found  |-> TRUE,
             index  |-> p - 1,
             g1     |-> Cap(q),
             g2     |-> SubSeq(t, k + 1, e - 1),
             length |-> (e + Len(END_LIT) + Len(Cap(q)) + Len(CLOSE_LIT)) - (p - 1)]

\* One attempt of the regex at index p, in the order backtracking tries
\* the alternatives: shortest capture first (lazy), then the longest white
\* space run (greedy), then the shortest content (lazy).
MatchAt(t, p) ==
    IF ~HasAt(t, p, START_LIT) THEN NoMatch
    ELSE
    LET Cap(q) == SubSeq(t, p + 4, q - 1)
        Ks(q)  == {k \in WsEnds(t, q + 2) : EndAts(t, k + 1, Cap(q)) # {}}
        qs     == {q \in NameEnds(t, p) : Ks(q) # {}}
    IN  IF qs = {} THEN NoMatch
        ELSE
        LET q == Min(qs)
            k == Max(Ks(q))
            e == Min(EndAts(t, k + 1, Cap(q)))
        IN  [found  |-> TRUE,
             index  |-> p - 1,                       \* match.index (0-based)
             g1     |-> Cap(q),                      \* match[1]
             g2     |-> SubSeq(t, k + 1, e - 1),     \* match[2]
             length |-> (e + Len(END_LIT) + Len(Cap(q)) + Len(CLOSE_LIT)) - (p - 1)]

\* fileRegex.exec(codeOutput) with the g flag: the first match at or after
\* lastIndex (0-based)
exec(t, lastIndex) ==
    LET ps == {p \in (lastIndex + 1)..Len(t) : MatchAt(t, p).found}
    IN  IF ps = {} THEN NoMatch ELSE MatchAt(t, Min(ps))

\* the object pushed on foundRanges for one match
Range(m) ==
    [filename |-> trim(m.g1),
     content  |-> trim(m.g2),
     start    |-> m.index,
     end      |-> m.index + m.length]

\* (the same loop restarting one character after the start of each match)
RECURSIVE firstPassRestart(_, _)
firstPassRestart(t, lastIndex) ==
    LET m == exec(t, lastIndex)
    IN  IF ~m.found THEN << >>
        ELSE << Range(m) >> \o firstPassRestart(t, m.index + 1)

\* first pass: the while loop over fileRegex.exec
RECURSIVE firstPass(_, _)
firstPass(t, lastIndex) ==
    LET m == exec(t, lastIndex)
    IN  IF ~m.found THEN << >>
        ELSE << Range(m) >> \o firstPass(t, m.index + m.length)

\* the predicate of the second pass: other strictly contains range
Contains(other, range) ==
    /\ other.start < range.start
    /\ other.end > range.end

\* second pass: foundRanges.filter(...)
secondPass(found) ==
    SelectSeq(
        [i \in 1..Len(found) |-> [r |-> found[i], i |-> i]],
        LAMBDA x : ~\E j \in 1..Len(found) :
                        j # x.i /\ Contains(found[j], x.r))

\* the loop that fills files and parsedFiles
RECURSIVE fill(_, _)
fill(rs, acc) ==
    IF Len(rs) = 0 THEN acc
    ELSE
    LET r == rs[1].r
        d == DOMAIN acc.parsedFiles
    IN  fill(Tail(rs),
             [files |-> Append(acc.files, r.filename),
              parsedFiles |->
                  [n \in d \cup {r.filename} |->
                      IF n = r.filename THEN r.content ELSE acc.parsedFiles[n]]])

(***************************************************************************)
(* The line parser of file-processor.js, lines 12-49                       *)
(***************************************************************************)
startsWith(line, lit) == HasAt(line, 1, lit)

\* line.replace('=== FILENAME: ', '').trim() for a line that starts with it
replaceStart(line) == trim(SubSeq(line, Len(START_LIT) + 1, Len(line)))

\* one iteration of `for (const line of lines)`; currentFile = << >> stands
\* for both null and the empty string, which the code tests alike
lineStep(s, line) ==
    IF startsWith(line, START_LIT) THEN
        [files |-> IF s.currentFile # << >> /\ s.inFile
                   THEN Append(s.files, [path |-> s.currentFile,
                                         content |-> join(s.currentContent)])
                   ELSE s.files,
         currentFile |-> replaceStart(line),
         currentContent |-> << >>,
         inFile |-> TRUE]
    ELSE IF startsWith(line, END_LIT) THEN
        [files |-> IF s.currentFile # << >> /\ s.inFile
                   THEN Append(s.files, [path |-> s.currentFile,
                                         content |-> join(s.currentContent)])
                   ELSE s.files,
         currentFile |-> << >>,
         currentContent |-> << >>,
         inFile |-> FALSE]
    ELSE IF s.inFile THEN
        [s EXCEPT !.currentContent = Append(@, line)]
    ELSE s

RECURSIVE lineLoop(_, _)
lineLoop(s, lines) ==
    IF Len(lines) = 0 THEN s ELSE lineLoop(lineStep(s, lines[1]), Tail(lines))

\* lines 45-49: a file without an explicit END marker
afterLoop(s) ==
    IF s.currentFile # << >> /\ s.inFile /\ Len(s.currentContent) > 0
    THEN Append(s.files, [path |-> s.currentFile, content |-> join(s.currentContent)])
    ELSE s.files

fpParse(response) ==
    afterLoop(lineLoop([files |-> << >>, currentFile |-> << >>,
                        currentContent |-> << >>, inFile |-> FALSE],
                       split(response)))

(***************************************************************************)
(* file-processor.js, lines 51-93: the dry run and the write loop.         *)
(* A disk is [dirs, files]: the directories that exist beside the working  *)
(* directory "." and the files as {path, content} records, one per path.   *)
(***************************************************************************)
Slashes(p) == {i \in 1..Len(p) : p[i] = "/"}

\* path.dirname(file.path)
dirname(p) ==
    IF Slashes(p) = {} THEN << "." >>
    ELSE IF Max(Slashes(p)) = 1 THEN << "/" >>
    ELSE SubSeq(p, 1, Max(Slashes(p)) - 1)

\* fs.mkdir(dir, { recursive: true }): dir and the directories above it
mkdir(d, dir) ==
    [d EXCEPT !.dirs = @ \cup {dir}
                         \cup {SubSeq(dir, 1, i - 1) : i \in Slashes(dir) \ {1}}]

\* the directory of a path exists
HasDir(d, p) == dirname(p) = << "." >> \/ dirname(p) \in d.dirs

\* fs.writeFile(path, content) that succeeds: creates or replaces the file
writeFile(d, p, c) ==
    [d EXCEPT !.files = {f \in @ : f.path # p} \cup {[path |-> p, content |-> c]}]

\* what throws for the i-th parsed file
FaultOf(flt, i) == IF i \in DOMAIN flt THEN flt[i] ELSE "none"

\* lines 67-86: the body of `for (const file of files)` with its try/catch.
\* mkdir throws when the fault says so; writeFile throws when the fault says
\* so or when the directory of the path does not exist.
writeStep(s, file, opts, flt) ==
    LET dir == dirname(file.path)
        made == opts.createDirectories /\ dir # << "." >>
    IN  IF made /\ flt = "mkdir" THEN s
        ELSE LET d == IF made THEN mkdir(s.disk, dir) ELSE s.disk
             IN  IF flt = "writeFile" \/ ~HasDir(d, file.path)
                 THEN [s EXCEPT !.disk = d]
                 ELSE [disk |-> writeFile(d, file.path, file.content),
                       writtenFiles |-> Append(s.writtenFiles, file.path)]

\* (a write loop that a failed file ends)
RECURSIVE writeLoopAborting(_, _, _, _, _)
writeLoopAborting(s, fs, i, opts, flt) ==
    IF i > Len(fs) THEN s
    ELSE LET t == writeStep(s, fs[i], opts, FaultOf(flt, i))
         IN  IF t.writtenFiles = s.writtenFiles THEN t
             ELSE writeLoopAborting(t, fs, i + 1, opts, flt)

\* lines 64-93: the write loop from file i on
RECURSIVE writeLoop(_, _, _, _, _)
writeLoop(s, fs, i, opts, flt) ==
    IF i > Len(fs) THEN s
    ELSE writeLoop(writeStep(s, fs[i], opts, FaultOf(flt, i)), fs, i + 1, opts, flt)

\* (a dry run that writes all the same)
writeFilesWet(fs, opts, flt, d) ==
    LET s == writeLoop([disk |-> d, writtenFiles |-> << >>], fs, 1, opts, flt)
    IN  [disk |-> s.disk, returned |-> s.writtenFiles]

\* lines 51-93: what parseAndWriteFiles does with the parsed files fs on
\* disk d, and what it returns
writeFiles(fs, opts, flt, d) ==
    IF Len(fs) = 0 THEN [disk |-> d, returned |-> << >>]
    ELSE IF opts.dryRun
    THEN [disk |-> d, returned |-> [i \in 1..Len(fs) |-> fs[i].path]]
    ELSE LET s == writeLoop([disk |-> d, writtenFiles |-> << >>], fs, 1, opts, flt)
         IN  [disk |-> s.disk, returned |-> s.writtenFiles]

(***************************************************************************)
(* The stack-based resolvers: parseFilesRobust of                          *)
(* tests/test-robust-parser.js and of the "Fixed robust parser" test       *)
(***************************************************************************)
\* /=== (FILENAME|END): (.+?) ===/ matches at index p
MarkerAt(t, p) ==
    /\ (HasAt(t, p, START_LIT) \/ HasAt(t, p, END_LIT))
    /\ NameEnds(t, p) # {}

\* the object pushed on markers for the match at p
Marker(t, p) ==
    LET q == Min(NameEnds(t, p))
    IN  [type        |-> IF HasAt(t, p, START_LIT) THEN "FILENAME" ELSE "END",
         filename    |-> trim(SubSeq(t, p + 4, q - 1)),
         position    |-> p - 1,
         endPosition |-> q + 1]

\* the while loop over markerRegex.exec
RECURSIVE collectMarkers(_, _)
collectMarkers(t, lastIndex) ==
    LET ps == {p \in (lastIndex + 1)..Len(t) : MarkerAt(t, p)}
    IN  IF ps = {} THEN << >>
        ELSE LET m == Marker(t, Min(ps))
             IN  << m >> \o collectMarkers(t, m.endPosition)

\* stack.splice(i, 1)
splice(stack, i) == SubSeq(stack, 1, i - 1) \o SubSeq(stack, i + 1, Len(stack))

\* tests/test-robust-parser.js, lines 29-47: one marker of the walk
pairStep(s, marker) ==
    IF marker.type = "FILENAME" THEN [s EXCEPT !.stack = Append(@, marker)]
    ELSE
    LET hits == {i \in 1..Len(s.stack) : s.stack[i].filename = marker.filename}
    IN  IF hits = {} THEN s
        ELSE
        LET i    == Max(hits)
            rest == splice(s.stack, i)
        IN  [stack |-> rest,
             validRanges |-> Append(s.validRanges,
                 [filename |-> marker.filename,
                  startPos |-> s.stack[i].endPosition,
                  endPos   |-> marker.position,
                  isNested |-> Len(rest) > 0])]

\* the "Fixed robust parser", lines 25-50: one marker of the walk; the
\* matched field of a stacked marker is "undefined" or "false"
pairStepFixed(s, marker) ==
    IF marker.type = "FILENAME" THEN
        LET live == {i \in 1..Len(s.stack) : s.stack[i].matched # "false"}
        IN  [s EXCEPT !.stack = Append(@,
                 [filename    |-> marker.filename,
                  endPosition |-> marker.endPosition,
                  depth       |-> Cardinality(live),
                  matched     |-> "undefined"])]
    ELSE
    LET hits  == {i \in 1..Len(s.stack) :
                    /\ s.stack[i].filename = marker.filename
                    /\ s.stack[i].matched # "false"}
        rest  == IF hits = {} THEN s.stack ELSE splice(s.stack, Max(hits))
        valid == IF hits = {} THEN s.validRanges
                 ELSE Append(s.validRanges,
                         [filename |-> marker.filename,
                          startPos |-> s.stack[Max(hits)].endPosition,
                          endPos   |-> marker.position,
                          depth    |-> s.stack[Max(hits)].depth])
    IN  [stack |-> [i \in 1..Len(rest) |->
                       IF rest[i].filename = marker.filename
                          /\ rest[i].matched = "undefined"
                       THEN [rest[i] EXCEPT !.matched = "false"]
                       ELSE rest[i]],
         validRanges |-> valid]

RECURSIVE pairLoop(_, _)
pairLoop(s, ms) ==
    IF Len(ms) = 0 THEN s ELSE pairLoop(pairStep(s, ms[1]), Tail(ms))

RECURSIVE pairLoopFixed(_, _)
pairLoopFixed(s, ms) ==
    IF Len(ms) = 0 THEN s ELSE pairLoopFixed(pairStepFixed(s, ms[1]), Tail(ms))

\* the loop over outerRanges: substring, trim, and the test `if (cleanContent)`
RECURSIVE extract(_, _)
extract(t, rs) ==
    IF Len(rs) = 0 THEN << >>
    ELSE
    LET cleanContent == trim(SubSeq(t, rs[1].startPos + 1, rs[1].endPos))
    IN  (IF cleanContent # << >>
         THEN << [filename |-> rs[1].filename, content |-> cleanContent] >>
         ELSE << >>) \o extract(t, Tail(rs))

IsOuter(range) == ~range.isNested
IsDepth0(range) == range.depth = 0

NotRun == [done |-> FALSE, validRanges |-> << >>, files |-> << >>]

(***************************************************************************)
(* The validation functions of llm-client.js.  Names and contents are      *)
(* sequences of characters and of whole words; CharLen gives the number of *)
(* characters a unit stands for ("L127" is a run of 127 letters).          *)
(***************************************************************************)
CharLen(c) ==
    CASE c = "L127" -> 127
      [] c = "L128" -> 128
      [] c = "L8" -> 8
      [] c = "D" -> 3
      [] c \in {"etc", "sys", "dev", "ext", "txt", "tmp", "src"} -> 3
      [] c \in {"proc", "root", "boot", "path", "file", "word"} -> 4
      [] c \in {"TODO:", "todo:"} -> 5
      [] c \in {"FIXME:", "fixme:"} -> 6
      [] c \in {"example", "content"} -> 7
      [] c = "template" -> 8
      [] c \in {"placeholder", "Placeholder"} -> 11
      [] c = "sample" -> 6
      [] c = "to" -> 2
      [] c = "js" -> 2
      [] OTHER -> 1

\* String.prototype.length
RECURSIVE length(_)
length(s) == IF Len(s) = 0 THEN 0 ELSE CharLen(s[1]) + length(Tail(s))

\* String.prototype.includes
includes(s, lit) == \E p \in 1..Len(s) : HasAt(s, p, lit)

\* the directory names of the dangerousPaths patterns
dangerousPaths == {"etc", "proc", "sys", "dev", "root", "boot"}

isDangerousPath(name) ==
    IF includes(name, << ".", "." >>) THEN TRUE
    ELSE IF includes(name, << "NUL" >>) THEN TRUE
    ELSE IF \E d \in dangerousPaths : HasAt(name, 1, << "/", d, "/" >>) THEN TRUE
    ELSE IF length(name) > 255 THEN TRUE
    ELSE FALSE

\* the lower-case form of a word (the i flag)
lower(c) ==
    CASE c = "TODO:" -> "todo:"
      [] c = "FIXME:" -> "fixme:"
      [] c = "Placeholder" -> "placeholder"
      [] c = "Y" -> "y"
      [] OTHER -> c

\* pattern.test(s) for a pattern that is a literal text
testLit(s, lit) == includes(s, lit)

\* pattern.test(s) for a literal text anchored at the end ($)
testLitEnd(s, lit) == Len(s) >= Len(lit) /\ HasAt(s, Len(s) - Len(lit) + 1, lit)

\* genericPathPatterns.some(pattern => pattern.test(filename))
genericPath(name) ==
    \/ testLit(name, << "path", "/", "to", "/" >>)
    \/ testLit(name, << "example", "/" >>)
    \/ testLit(name, << "sample", "/" >>)
    \/ testLit(name, << "template", "/" >>)
    \/ testLitEnd(name, << ".", "ext" >>)
    \/ \E e \in {"txt", "ext", "tmp"} : testLitEnd(name, << "file", ".", e >>)

\* /^\[.*\]$/ and /^<.*>$/ : . matches no line feed and $ only the end
testWrapped(s, open, close) ==
    /\ Len(s) >= 2
    /\ s[1] = open
    /\ s[Len(s)] = close
    /\ \A i \in 2..(Len(s) - 1) : s[i] # "nl"

\* placeholderContentPatterns.some(pattern => pattern.test(content.trim()))
placeholderContent(s) ==
    \/ testWrapped(s, "[", "]")
    \/ testWrapped(s, "<", ">")
    \/ (Len(s) >= 1 /\ lower(s[1]) = "todo:")
    \/ (Len(s) >= 1 /\ lower(s[1]) = "fixme:")
    \/ \E i \in 1..Len(s) : lower(s[i]) = "placeholder"
    \/ \E i \in 1..Len(s) : \E j \in (i + 1)..Len(s) :
          /\ s[i] = "example"
          /\ s[j] = "content"
          /\ \A k \in i..j : s[k] # "nl"

isPlaceholderFile(name, text) ==
    IF genericPath(name) THEN TRUE
    ELSE IF placeholderContent(trim(text)) THEN TRUE
    ELSE IF length(trim(text)) < 10 THEN TRUE
    ELSE FALSE

\* (the third pass without the security validation)
RECURSIVE thirdPassUnchecked(_, _, _)
thirdPassUnchecked(rs, ok, i) ==
    IF i > Len(rs) THEN [created |-> << >>, files |-> << >>]
    ELSE
    LET r    == rs[i].r
        rest == thirdPassUnchecked(rs, ok, i + 1)
    IN  IF isPlaceholderFile(r.filename, r.content) THEN rest
        ELSE [created |-> << [filename |-> r.filename, content |-> r.content] >>
                          \o rest.created,
              files   |-> (IF ok[i] THEN << r.filename >> ELSE << >>) \o rest.files]

\* llm-client.js, lines 144-166: the third pass over outerRanges; ok[i]
\* tells whether createFile succeeds for range i (it returns false when
\* the file system throws)
RECURSIVE thirdPass(_, _, _)
thirdPass(rs, ok, i) ==
    IF i > Len(rs) THEN [created |-> << >>, files |-> << >>]
    ELSE
    LET r    == rs[i].r
        rest == thirdPass(rs, ok, i + 1)
    IN  IF isPlaceholderFile(r.filename, r.content) THEN rest
        ELSE IF isDangerousPath(r.filename) THEN rest
        ELSE [created |-> << [filename |-> r.filename, content |-> r.content] >>
                          \o rest.created,
              files   |-> (IF ok[i] THEN << r.filename >> ELSE << >>) \o rest.files]

NoVerdict == [done |-> FALSE, value |-> FALSE]
LlmNotRun == [done |-> FALSE, outerRanges |-> << >>, created |-> << >>,
              files |-> << >>, parsedFiles |-> << >>]

(***************************************************************************)
(* The iteration loop of main.js and runEvalScript of file-processor.js    *)
(***************************************************************************)
maxSteps == 5

\* (a loop test that lets one more step in)
whileTestLax(step) == step <= maxSteps

\* main.js, line 82: while (currentStep < config.maxSteps)
whileTest(step) == step < maxSteps

\* main.js, line 94: if (currentStep >= config.maxSteps)
reachedMaximum(step) == step >= maxSteps

\* createConfig: yoloMode
yoloMode == YOLO \/ GITHUB_ACTIONS

\* one entry of the log: what was done, in which step, with what
Ev(e, a) == [ev |-> e, step |-> currentStep, arg |-> a]

\* String.prototype.toLowerCase
toLowerCase(s) == [i \in 1..Len(s) |-> lower(s[i])]

\* promptUser of script.js: answer.toLowerCase().startsWith('y')
startsWithY(answer) ==
    Len(answer) >= 1 /\ toLowerCase(answer)[1] = "y"

\* (an answer test that lets every answer starting with y through)
affirmativeLax(answer) == startsWithY(answer)

\* file-processor.js, line 139: the answer that lets the script run
affirmative(answer) ==
    toLowerCase(answer) = << "y" >> \/ toLowerCase(answer) = << "y", "e", "s" >>

\* file-processor.js: runEvalScript(response, {safeMode, yolo}).  in.eval
\* tells what the response holds: "unclosed" (the # EVAL header without a
\* closing fence: evalMatch is null), "empty" or "script"; in.answer is what
\* the user types, in.writeOk whether writing the script file succeeds and
\* in.execOk whether running it (and removing it afterwards) does.  The
\* last event is the returned object.
runEvalScript(in, safeMode, yolo) ==
    IF in.eval \in {"absent", "unclosed", "empty"}
    THEN [events |-> << Ev("evalResult", << "success" >>) >>,
          success |-> TRUE, skipped |-> FALSE]
    ELSE IF safeMode /\ ~yolo /\ ~affirmative(in.answer)
    THEN [events |-> << Ev("prompt", in.answer), Ev("evalResult", << "skipped" >>) >>,
          success |-> FALSE, skipped |-> TRUE]
    ELSE [events |->
              (IF safeMode /\ ~yolo THEN << Ev("prompt", in.answer) >> ELSE << >>)
              \o (IF in.writeOk
                  THEN << Ev("writeScript", << >>), Ev("execScript", << >>) >>
                  ELSE << Ev("writeScript", << >>) >>)
              \o << Ev("evalResult",
                       IF in.writeOk /\ in.execOk
                       THEN << "success" >> ELSE << "failed" >>) >>,
          success |-> in.writeOk /\ in.execOk,
          skipped |-> FALSE]

\* main.js, lines 106-125: what a step does up to the commit, whose
\* result (commitSuccess) is logged with it
stepHead(in) ==
    << Ev("generate", << >>), Ev("parse", << "n" >>),
       Ev("commitMessage", << >>),
       Ev("commit", IF in.commitOk THEN << "ok" >> ELSE << "failed" >>) >>

\* (a step that asks for another step after a skipped eval as well)
afterWriteSkipContinues(in) ==
    LET head == stepHead(in)
        eval == runEvalScript(in, ~yoloMode, yoloMode)
    IN  IF ~in.commitOk THEN [events |-> head, shouldContinue |-> FALSE]
        ELSE IF in.eval = "absent" THEN [events |-> head, shouldContinue |-> FALSE]
        ELSE [events |-> head \o eval.events, shouldContinue |-> ~eval.success]

\* (a step that runs the eval script whatever the commit reported)
afterWriteUncommitted(in) ==
    LET head == stepHead(in)
        eval == runEvalScript(in, ~yoloMode, yoloMode)
    IN  IF in.eval = "absent" THEN [events |-> head, shouldContinue |-> FALSE]
        ELSE [events |-> head \o eval.events,
              shouldContinue |-> ~eval.skipped /\ ~eval.success]

\* main.js, lines 118-155: the rest of executeStep once files were written
afterWrite(in) ==
    LET head == stepHead(in)
        eval == runEvalScript(in, ~yoloMode, yoloMode)
    IN  IF ~in.commitOk THEN [events |-> head, shouldContinue |-> FALSE]
        ELSE IF in.eval = "absent" THEN [events |-> head, shouldContinue |-> FALSE]
        ELSE [events |-> head \o eval.events,
              shouldContinue |-> ~eval.skipped /\ ~eval.success]

\* (a step that asks for another step when no file was written)
stepOfRetry(in) ==
    IF ~in.llmOk
    THEN [events |-> << Ev("generate", << >>) >>, shouldContinue |-> FALSE]
    ELSE IF in.written = 0
    THEN [events |-> << Ev("generate", << >>), Ev("parse", << "0" >>) >>,
          shouldContinue |-> TRUE]
    ELSE afterWrite(in)

\* main.js: executeStep; the value is what the step did and what it returns
stepOf(in) ==
    IF ~in.llmOk
    THEN [events |-> << Ev("generate", << >>) >>, shouldContinue |-> FALSE]
    ELSE IF in.written = 0
    THEN [events |-> << Ev("generate", << >>), Ev("parse", << "0" >>) >>,
          shouldContinue |-> FALSE]
    ELSE afterWrite(in)

(***************************************************************************)
(* AICoder.run of script.js                                                *)
(***************************************************************************)
\* (final tests whose failure is only logged)
finalTestsIgnored(test) == "ok"

\* script.js, run(): the final validation.  test tells whether TEST_COMMAND
\* is unset, passes or fails; a failing command throws, and the catch of
\* run() exits with status 1
finalTests(test) == IF test = "fail" THEN "throw" ELSE "ok"

\* promptUser(question): true in GitHub Actions, else what the user typed
promptUser(answer) == IF GITHUB_ACTIONS THEN TRUE ELSE startsWithY(answer)

\* AICoder.runEvalScript(script): eval.sh is written, then the user is
\* asked unless yoloMode is on, then the script runs
coderRunEvalScript(in) ==
    IF ~in.writeOk
    THEN [events |-> << Ev("writeScript", << >>) >>, success |-> FALSE]
    ELSE IF ~yoloMode /\ ~promptUser(in.answer)
    THEN [events |-> << Ev("writeScript", << >>), Ev("prompt", in.answer) >>,
          success |-> FALSE]
    ELSE [events |-> << Ev("writeScript", << >>) >>
                     \o (IF ~yoloMode THEN << Ev("prompt", in.answer) >> ELSE << >>)
                     \o << Ev("execScript", << >>) >>,
          success |-> in.execOk]

\* the body of the for loop of run(): what it did and how it ends:
\* "throw", "break" or "continue" (commitFiles swallows a failed commit)
bodyOf(in) ==
    IF ~in.llmOk
    THEN [events |-> << Ev("generate", << >>) >>, ends |-> "throw"]
    ELSE IF in.written = 0
    THEN [events |-> << Ev("generate", << >>), Ev("parse", << "0" >>) >>,
          ends |-> "break"]
    ELSE
    LET head == << Ev("generate", << >>), Ev("parse", << "n" >>),
                  Ev("commitMessage", << >>), Ev("commit", << >>) >>
        eval == coderRunEvalScript(in)
    IN  IF in.eval # "script" THEN [events |-> head, ends |-> "continue"]
        ELSE [events |-> head \o eval.events,
              ends |-> IF eval.success THEN "break" ELSE "continue"]

(***************************************************************************)
(* The inputs                                                              *)
(***************************************************************************)
SL(n)  == START_LIT \o << n >> \o CLOSE_LIT                          \* === FILENAME: n ===
EL(n)  == END_LIT \o << n >> \o CLOSE_LIT                            \* === END: n ===
PSL(n) == START_LIT \o << "sp", "sp", n, "sp", "sp" >> \o CLOSE_LIT  \* === FILENAME:   n   ===
PEL(n) == END_LIT \o << "sp", "sp", n, "sp", "sp" >> \o CLOSE_LIT    \* === END:   n   ===
MSL(n) == << "x", "sp" >> \o SL(n)                                   \* x === FILENAME: n ===

Good(n, c)   == << SL(n), << c >>, EL(n) >>
Empty(n)     == << SL(n), << >>, EL(n) >>       \* a block whose content is the empty string
Broken(n, m) == << SL(n), << "x" >>, EL(m) >>

RECURSIVE flatten(_)
flatten(cs) == IF Len(cs) = 0 THEN << >> ELSE cs[1] \o flatten(Tail(cs))

TextsOf(chunks, max) ==
    {join(flatten(cs)) : cs \in UNION {[1..n -> chunks] : n \in 0..max}}

\* single marker lines and whole blocks: nesting and overlap
NestChunks ==
    {<< SL(n) >> : n \in Names} \cup {<< EL(n) >> : n \in Names}
    \cup {Good(n, "x") : n \in Names}

\* whole blocks, blocks closed by another name, stray END lines, blank lines
BlockChunks ==
    {Good(n, c) : n \in Names, c \in Contents} \cup {Empty(n) : n \in Names}
    \cup {Broken(p[1], p[2]) : p \in {q \in Names \X Names : q[1] # q[2]}}
    \cup {<< EL(n) >> : n \in Names} \cup {<< << >> >>}

\* lines with padded names, padded content and a start tag inside a line
WsLines ==
    {<< SL("a") >>, << EL("a") >>, << PSL("a") >>, << PEL("a") >>, << MSL("a") >>,
     << << "x" >> >>, << << "sp", "x", "sp" >> >>, << << >> >>}

\* single marker lines, whole blocks, and a block closed by a name that no
\* Start carries
StackChunks ==
    {<< SL(n) >> : n \in Names} \cup {<< EL(n) >> : n \in Names}
    \cup {Good("a", "x"), Good("c", "x"), Broken("b", "d")}

\* single marker lines, plain and padded, whole blocks and a content line
EquivChunks ==
    NestChunks \cup {<< PSL("a") >>, << PEL("a") >>, << << "x" >> >>}

\* the characters and words of the probed path names
PathUnits == {"/", ".", "etc", "boot", "x", "NUL", "L127", "L128"}
PathNames == UNION {[1..n -> PathUnits] : n \in 1..MaxPathUnits}

\* the units of the probed contents, and the two names they come with
ContentUnits ==
    {"[", "]", "<", ">", "nl", "TODO:", "fixme:", "Placeholder", "L8", "x"}
ContentTexts == UNION {[1..n -> ContentUnits] : n \in 1..MaxContentUnits}
RealName == << "src", "/", "x", ".", "js" >>
GenericName == << "path", "/", "to", "/", "file", ".", "ext" >>

\* one block with a name and a content of several characters
BlockOf(n, c) == << START_LIT \o n \o CLOSE_LIT, c, END_LIT \o n \o CLOSE_LIT >>

EtcName == << "/", "etc", "/", "x" >>
OtherName == << "src", "/", "y", ".", "js" >>
BracketContent == << "[", "word", "sp", "word", "]" >>     \* [complete file content]
RealContent == << "L8", "sp", "x" >>                       \* ten characters
ShortContent == << "word" >>

ClassChunks ==
    {BlockOf(n, c) : n \in {RealName, GenericName, EtcName, OtherName},
                     c \in {BracketContent, RealContent, ShortContent}}

\* a path two directories down, none of which exists
LibName == << "lib", "/", "sub", "/", "b" >>

\* blocks whose files go to an existing directory, to the working directory
\* and to a new directory, and a line outside every block
WriteChunks ==
    {BlockOf(RealName, RealContent), BlockOf(<< "a" >>, << "x" >>),
     BlockOf(LibName, << "y" >>), << << "x" >> >>}

\* which call throws for a parsed file
Faults == {"none", "mkdir", "writeFile"}

\* file-processor.js, lines 6-10: the options and their defaults
Options == [dryRun : BOOLEAN, createDirectories : BOOLEAN]
defaults == [dryRun |-> FALSE, createDirectories |-> TRUE]

\* what the user may type at the confirmation prompt
Answers ==
    {<< "y" >>, << "Y", "e", "s" >>, << "n" >>, << >>, << "y", "e", "a", "h" >>}

\* what one step meets: the model call, the files written, the commit, the
\* eval script of the response, the user and the script run
StepInputs ==
    [llmOk : BOOLEAN, written : {0, 1}, commitOk : BOOLEAN,
     eval : {"absent", "unclosed", "empty", "script"},
     answer : Answers, writeOk : BOOLEAN, execOk : BOOLEAN]

\* no run of the tool
NoRun ==
    /\ program = "none"
    /\ YOLO = FALSE
    /\ GITHUB_ACTIONS = FALSE
    /\ currentStep = 0
    /\ lpc = "done"
    /\ left = "no"
    /\ log = << >>

\* the disk before a call: src/x.js exists
Disk0 ==
    [dirs |-> {<< "src" >>},
     files |-> {[path |-> RealName, content |-> << "old" >>]}]

\* the default options, no fault, nothing returned yet
NoWrite ==
    /\ dryRun = defaults.dryRun
    /\ createDirectories = defaults.createDirectories
    /\ fault = << >>
    /\ disk = Disk0
    /\ returned = << >>

\* the state before any operation ran, with the given inputs
\* the state before any operation ran, with the given inputs, but for what
\* the write of files needs
FreshRead(t, n, c) ==
    /\ NoRun
    /\ codeOutput = t
    /\ pc = "ready"
    /\ foundRanges = << >>
    /\ outerRanges = << >>
    /\ files = << >>
    /\ parsedFiles = << >>
    /\ fpFiles = << >>
    /\ pass = 1
    /\ firstFile = << >>
    /\ robust = NotRun
    /\ fixed = NotRun
    /\ filename = n
    /\ content = c
    /\ dangerous = NoVerdict
    /\ placeholder = NoVerdict
    /\ llm = LlmNotRun

\* the state before any operation ran, with the given inputs
FreshWith(t, n, c) == NoWrite /\ FreshRead(t, n, c)

\* no parser input, nothing parsed
NoParse ==
    /\ NoWrite
    /\ codeOutput = << >>
    /\ pc = "ready"
    /\ foundRanges = << >>
    /\ outerRanges = << >>
    /\ files = << >>
    /\ parsedFiles = << >>
    /\ fpFiles = << >>
    /\ pass = 1
    /\ firstFile = << >>
    /\ robust = NotRun
    /\ fixed = NotRun
    /\ filename = << >>
    /\ content = << >>
    /\ dangerous = NoVerdict
    /\ placeholder = NoVerdict
    /\ llm = LlmNotRun

Fresh(t) == FreshWith(t, << >>, << >>)

Init       == \E t \in TextsOf(NestChunks, MaxChunks) : Fresh(t)
InitBlocks == \E t \in TextsOf(BlockChunks, MaxBlocks) : Fresh(t)
InitWs     == \E t \in TextsOf(WsLines, MaxWsLines) : Fresh(t)
InitStack  == \E t \in TextsOf(StackChunks, MaxStackChunks) : Fresh(t)

InitClassify == \E t \in TextsOf(ClassChunks, MaxClassBlocks) : Fresh(t)
InitLoop ==
    /\ NoParse
    /\ program \in {"main", "script"}
    /\ YOLO \in BOOLEAN
    /\ GITHUB_ACTIONS \in BOOLEAN
    /\ currentStep = 0
    /\ lpc = "start"
    /\ left = "no"
    /\ log = << >>
InitEquiv == \E t \in TextsOf(EquivChunks, MaxEquivChunks) : Fresh(t)
InitWrite == \E t \in TextsOf(WriteChunks, MaxWriteBlocks) : Fresh(t)
InitPath    == \E n \in PathNames : FreshWith(<< >>, n, << >>)
InitContent == \E n \in {RealName, GenericName} : \E c \in ContentTexts :
                  FreshWith(<< >>, n, c)

(***************************************************************************)
(* The operations                                                          *)
(***************************************************************************)
\* robust-file-parser.js: parseAndWriteFiles(codeOutput)
parseAndWriteFiles ==
    /\ pc = "ready"
    /\ LET found == firstPass(codeOutput, 0)
           outer == secondPass(found)
           out   == fill(outer, [files |-> << >>, parsedFiles |-> << >>])
       IN  /\ foundRanges' = found
           /\ outerRanges' = [i \in 1..Len(outer) |-> outer[i].r]
           /\ files' = out.files
           /\ parsedFiles' = out.parsedFiles
    /\ pc' = "parsed"
    /\ UNCHANGED << codeOutput, fpFiles, pass, firstFile, robust, fixed, classVars, loopVars, writeVars >>

\* the rest of parseAndWriteFiles (lines 51-93) once the response is
\* parsed: called with the options opts, on a disk where flt tells which
\* calls throw
writeParsed(parsed, opts, flt) ==
    LET out == writeFiles(parsed, opts, flt, disk)
    IN  /\ fpFiles' = parsed
        /\ dryRun' = opts.dryRun
        /\ createDirectories' = opts.createDirectories
        /\ fault' = flt
        /\ disk' = out.disk
        /\ returned' = out.returned

\* file-processor.js: parseAndWriteFiles(response, { logOutput: true }) as
\* executeStep calls it: dryRun false, createDirectories true; no call throws
fpParseAndWriteFiles ==
    /\ pc = "ready"
    /\ pass = 1
    /\ writeParsed(fpParse(codeOutput), defaults, << >>)
    /\ pc' = "fp_parsed"
    /\ UNCHANGED << codeOutput, foundRanges, outerRanges, files, parsedFiles,
                    pass, firstFile, robust, fixed, classVars, loopVars >>

\* file-processor.js: parseAndWriteFiles(response, options), whatever the
\* options and whichever calls throw
fpParseAndWriteFilesWith ==
    /\ pc = "ready"
    /\ pass = 1
    /\ LET parsed == fpParse(codeOutput)
       IN  \E opts \in Options : \E flt \in [1..Len(parsed) -> Faults] :
               writeParsed(parsed, opts, flt)
    /\ pc' = "fp_parsed"
    /\ UNCHANGED << codeOutput, foundRanges, outerRanges, files, parsedFiles,
                    pass, firstFile, robust, fixed, classVars, loopVars >>

\* robust-file-parser.js, lines 51-135: parseAndWriteFiles(response, options)
\* with the two passes of the regular expression in place of the line parser
rfpParseAndWriteFiles ==
    /\ pc = "ready"
    /\ pass = 1
    /\ foundRanges' = firstPass(codeOutput, 0)
    /\ LET outer == secondPass(foundRanges')
       IN  outerRanges' = [i \in 1..Len(outer) |-> outer[i].r]
    /\ LET parsed == [i \in 1..Len(outerRanges') |->
                         [path |-> outerRanges'[i].filename,
                          content |-> outerRanges'[i].content]]
       IN  \E opts \in Options : \E flt \in [1..Len(parsed) -> Faults] :
               writeParsed(parsed, opts, flt)
    /\ pc' = "rfp_parsed"
    /\ UNCHANGED << codeOutput, files, parsedFiles,
                    pass, firstFile, robust, fixed, classVars, loopVars >>

\* The caller wraps the single file of a parse in fresh markers and hands
\* the text to the parser again.
Rewrap ==
    /\ pc = "parsed"
    /\ pass = 1
    /\ Len(files) = 1
    /\ files[1] # << >>
    /\ codeOutput' = START_LIT \o files[1] \o CLOSE_LIT \o << "nl" >>
                     \o parsedFiles[files[1]] \o << "nl" >>
                     \o END_LIT \o files[1] \o CLOSE_LIT
    /\ firstFile' = << [filename |-> files[1], content |-> parsedFiles[files[1]]] >>
    /\ pass' = 2
    /\ pc' = "ready"
    /\ foundRanges' = << >>
    /\ outerRanges' = << >>
    /\ files' = << >>
    /\ parsedFiles' = << >>
    /\ UNCHANGED << fpFiles, robust, fixed, classVars, loopVars, writeVars >>

\* tests/test-robust-parser.js: parseFilesRobust(codeOutput)
parseFilesRobust ==
    /\ ~robust.done
    /\ LET w == pairLoop([stack |-> << >>, validRanges |-> << >>],
                         collectMarkers(codeOutput, 0))
       IN  robust' = [done |-> TRUE,
                      validRanges |-> w.validRanges,
                      files |-> extract(codeOutput, SelectSeq(w.validRanges, IsOuter))]
    /\ UNCHANGED << codeOutput, pc, foundRanges, outerRanges, files, parsedFiles,
                    fpFiles, pass, firstFile, fixed, classVars, loopVars, writeVars >>

\* "Fixed robust parser": parseFilesRobust(codeOutput)
parseFilesRobustFixed ==
    /\ ~fixed.done
    /\ LET w == pairLoopFixed([stack |-> << >>, validRanges |-> << >>],
                              collectMarkers(codeOutput, 0))
       IN  fixed' = [done |-> TRUE,
                     validRanges |-> w.validRanges,
                     files |-> extract(codeOutput, SelectSeq(w.validRanges, IsDepth0))]
    /\ UNCHANGED << codeOutput, pc, foundRanges, outerRanges, files, parsedFiles,
                    fpFiles, pass, firstFile, robust, classVars, loopVars, writeVars >>

Next == parseAndWriteFiles \/ fpParseAndWriteFiles \/ Rewrap

Spec       == Init /\ [][Next]_vars
SpecBlocks == InitBlocks /\ [][Next]_vars
SpecWs     == InitWs /\ [][Next]_vars

\* llm-client.js: isDangerousPath(filename)
callIsDangerousPath ==
    /\ ~dangerous.done
    /\ dangerous' = [done |-> TRUE, value |-> isDangerousPath(filename)]
    /\ UNCHANGED << codeOutput, pc, foundRanges, outerRanges, files, parsedFiles,
                    fpFiles, pass, firstFile, robust, fixed,
                    filename, content, placeholder, llm, loopVars, writeVars >>

\* llm-client.js: parseAndWriteFiles(codeOutput)
llmParseAndWriteFiles ==
    /\ ~llm.done
    /\ LET found == firstPass(codeOutput, 0)
           outer == secondPass(found)
       IN  \E ok \in [1..Len(outer) -> BOOLEAN] :
              LET third == thirdPass(outer, ok, 1)
              IN  llm' = [done        |-> TRUE,
                          outerRanges |-> [i \in 1..Len(outer) |-> outer[i].r],
                          created     |-> third.created,
                          files       |-> third.files,
                          parsedFiles |->
                              fill(outer, [files |-> << >>,
                                           parsedFiles |-> << >>]).parsedFiles]
    /\ UNCHANGED << codeOutput, pc, foundRanges, outerRanges, files, parsedFiles,
                    fpFiles, pass, firstFile, robust, fixed,
                    filename, content, dangerous, placeholder, loopVars, writeVars >>

NextClassify == llmParseAndWriteFiles
SpecClassify == InitClassify /\ [][NextClassify]_vars

\* llm-client.js: isPlaceholderFile(filename, content)
callIsPlaceholderFile ==
    /\ ~placeholder.done
    /\ placeholder' = [done |-> TRUE, value |-> isPlaceholderFile(filename, content)]
    /\ UNCHANGED << codeOutput, pc, foundRanges, outerRanges, files, parsedFiles,
                    fpFiles, pass, firstFile, robust, fixed,
                    filename, content, dangerous, llm, loopVars, writeVars >>

NextContent == callIsPlaceholderFile
SpecContent == InitContent /\ [][NextContent]_vars

NextPath == callIsDangerousPath
SpecPath == InitPath /\ [][NextPath]_vars

parserVars == << codeOutput, pc, foundRanges, outerRanges, files, parsedFiles,
                 fpFiles, pass, firstFile, robust, fixed, classVars, writeVars >>

\* main.js: processIssue up to the loop; createBranch may fail, which throws
processIssue ==
    /\ program = "main"
    /\ lpc = "start"
    /\ \E branchOk \in BOOLEAN :
          /\ lpc' = IF branchOk THEN "loop" ELSE "failed"
          /\ log' = Append(log, Ev("createBranch", << >>))
    /\ currentStep' = 0
    /\ UNCHANGED << parserVars, program, YOLO, GITHUB_ACTIONS, left >>

\* main.js, lines 82-83: the loop test and the increment
whileLoop ==
    /\ program = "main"
    /\ lpc = "loop"
    /\ IF whileTest(currentStep)
       THEN /\ currentStep' = currentStep + 1
            /\ lpc' = "step"
            /\ left' = left
       ELSE /\ currentStep' = currentStep
            /\ lpc' = "after"
            /\ left' = "budget"
    /\ UNCHANGED << parserVars, program, YOLO, GITHUB_ACTIONS, log >>

\* main.js: executeStep and the test of its result (lines 86-91)
executeStep ==
    /\ program = "main"
    /\ lpc = "step"
    /\ \E in \in StepInputs :
          LET step == stepOf(in)
          IN  /\ log' = log \o step.events
              /\ lpc' = IF step.shouldContinue THEN "loop" ELSE "after"
              /\ left' = IF step.shouldContinue THEN left ELSE "break"
    /\ UNCHANGED << parserVars, program, YOLO, GITHUB_ACTIONS, currentStep >>

\* main.js, lines 94-99: the warning and the call after the loop
createPullRequest ==
    /\ program = "main"
    /\ lpc = "after"
    /\ log' = log
           \o (IF reachedMaximum(currentStep)
               THEN << Ev("warnMaximumSteps", << >>) >> ELSE << >>)
           \o << Ev("createPullRequest", << >>) >>
    /\ lpc' = "done"
    /\ UNCHANGED << parserVars, program, YOLO, GITHUB_ACTIONS, currentStep, left >>

\* script.js: AICoder.run up to the loop (the for initialisation);
\* getIssueContext may throw
run ==
    /\ program = "script"
    /\ lpc = "start"
    /\ \E contextOk \in BOOLEAN :
          /\ lpc' = IF contextOk THEN "loop" ELSE "failed"
          /\ log' = IF contextOk THEN Append(log, Ev("gitConfig", << >>)) ELSE log
    /\ currentStep' = 1
    /\ UNCHANGED << parserVars, program, YOLO, GITHUB_ACTIONS, left >>

\* the test of the for loop: this.currentStep <= this.maxSteps
forLoop ==
    /\ program = "script"
    /\ lpc = "loop"
    /\ IF currentStep <= maxSteps
       THEN lpc' = "step" /\ left' = left
       ELSE lpc' = "after" /\ left' = "budget"
    /\ UNCHANGED << parserVars, program, YOLO, GITHUB_ACTIONS, currentStep, log >>

\* the body of the for loop and its increment
runBody ==
    /\ program = "script"
    /\ lpc = "step"
    /\ \E in \in StepInputs :
          LET body == bodyOf(in)
          IN  /\ log' = log \o body.events
              /\ lpc' = CASE body.ends = "throw" -> "failed"
                          [] body.ends = "break" -> "after"
                          [] OTHER -> "loop"
              /\ left' = IF body.ends = "break" THEN "break" ELSE left
              /\ currentStep' = IF body.ends = "continue"
                                THEN currentStep + 1 ELSE currentStep
    /\ UNCHANGED << parserVars, program, YOLO, GITHUB_ACTIONS >>

\* the end of run(): the final tests, then pushAndCreatePR
pushAndCreatePR ==
    /\ program = "script"
    /\ lpc = "after"
    /\ \E test \in {"unset", "pass", "fail"} : \E checkoutOk \in BOOLEAN :
          IF finalTests(test) = "throw"
          THEN /\ log' = Append(log, Ev("testCommand", << test >>))
               /\ lpc' = "failed"
          ELSE /\ log' = log
                    \o (IF test # "unset"
                        THEN << Ev("testCommand", << test >>) >> ELSE << >>)
                    \o << Ev("checkout", << >>) >>
                    \o (IF checkoutOk THEN << Ev("push", << >>) >> ELSE << >>)
               /\ lpc' = "done"
    /\ UNCHANGED << parserVars, program, YOLO, GITHUB_ACTIONS, currentStep, left >>

NextLoop ==
    \/ processIssue \/ whileLoop \/ executeStep \/ createPullRequest
    \/ run \/ forLoop \/ runBody \/ pushAndCreatePR
SpecLoop == InitLoop /\ [][NextLoop]_vars
SpecLoopFair == InitLoop /\ [][NextLoop]_vars /\ WF_vars(NextLoop)

NextWrite == fpParseAndWriteFilesWith \/ rfpParseAndWriteFiles
SpecWrite == InitWrite /\ [][NextWrite]_vars

NextEquiv == parseAndWriteFiles \/ parseFilesRobust
SpecEquiv == InitEquiv /\ [][NextEquiv]_vars

NextStack == parseFilesRobust \/ parseFilesRobustFixed
SpecStack == InitStack /\ [][NextStack]_vars

(***************************************************************************)
(* The lines and blocks of the text, as the claims speak of them           *)
(***************************************************************************)
lines == split(codeOutput)

\* 0-based offset of the first character of line i, and the offset just
\* after its last character
RECURSIVE LineStart(_, _)
LineStart(ls, i) == IF i = 1 THEN 0 ELSE LineStart(ls, i - 1) + Len(ls[i - 1]) + 1
LineEnd(ls, i) == LineStart(ls, i) + Len(ls[i])

\* a line that is exactly one marker, and the name text it carries
IsStart(l) ==
    Len(l) >= 7 /\ HasAt(l, 1, START_LIT) /\ HasAt(l, Len(l) - 1, CLOSE_LIT)
IsEnd(l) ==
    Len(l) >= 7 /\ HasAt(l, 1, END_LIT) /\ HasAt(l, Len(l) - 1, CLOSE_LIT)
MarkerName(l) == SubSeq(l, 5, Len(l) - 2)

\* a line that holds no start tag and no end tag anywhere
IsPlain(l) ==
    \A p \in 1..Len(l) : ~HasAt(l, p, START_LIT) /\ ~HasAt(l, p, END_LIT)

\* the names m for which the line holds `=== FILENAME: m ===` somewhere
StartNamesIn(l) ==
    {SubSeq(l, pq[1] + 4, pq[2] - 1) :
        pq \in {x \in (1..Len(l)) \X (1..Len(l)) :
                    HasAt(l, x[1], START_LIT) /\ x[2] \in NameEnds(l, x[1])}}

\* the line begins with `=== END: m ===`
EndsName(l, m) == HasAt(l, 1, END_LIT \o m \o CLOSE_LIT)

\* A text without nesting is a sequence of segments: "good" (a Start line,
\* one or more plain lines, an End line with the same name text), "broken"
\* (the same, closed by an End line of another name) and "orphan" (an End
\* line outside any block), with plain lines between them.
RECURSIVE Segs(_, _, _, _)
Segs(ls, i, open, acc) ==
    IF i > Len(ls) THEN [ok |-> open = 0, segs |-> acc]
    ELSE IF open = 0 THEN
        IF IsPlain(ls[i]) THEN Segs(ls, i + 1, 0, acc)
        ELSE IF IsEnd(ls[i]) THEN
            Segs(ls, i + 1, 0,
                 Append(acc, [kind |-> "orphan", name |-> MarkerName(ls[i]),
                              ename |-> MarkerName(ls[i]), first |-> i, last |-> i]))
        ELSE IF IsStart(ls[i]) THEN Segs(ls, i + 1, i, acc)
        ELSE [ok |-> FALSE, segs |-> acc]
    ELSE
        IF IsPlain(ls[i]) THEN Segs(ls, i + 1, open, acc)
        ELSE IF IsEnd(ls[i]) /\ i >= open + 2 THEN
            Segs(ls, i + 1, 0,
                 Append(acc, [kind |-> IF MarkerName(ls[i]) = MarkerName(ls[open])
                                       THEN "good" ELSE "broken",
                              name |-> MarkerName(ls[open]),
                              ename |-> MarkerName(ls[i]),
                              first |-> open, last |-> i]))
        ELSE [ok |-> FALSE, segs |-> acc]

Flat == Segs(lines, 1, 0, << >>)

KindsOf(segs) == {segs[k].kind : k \in 1..Len(segs)}

IsGoodSeg(s) == s.kind = "good"

\* leading and trailing white space removed, written out for the claims
Stripped(s) ==
    LET keep == {i \in 1..Len(s) : s[i] \notin {"sp", "nl"}}
    IN  IF keep = {} THEN << >> ELSE SubSeq(s, Min(keep), Max(keep))

\* the range a good segment is expected to yield
RangeOf(ls, s) ==
    [filename |-> Stripped(s.name),
     content  |-> Stripped(join(SubSeq(ls, s.first + 1, s.last - 1))),
     start    |-> LineStart(ls, s.first),
     end      |-> LineEnd(ls, s.last)]

ExpectedRanges(ls, segs) ==
    LET good == SelectSeq(segs, IsGoodSeg)
    IN  [k \in 1..Len(good) |-> RangeOf(ls, good[k])]

NamesOf(rs) == [k \in 1..Len(rs) |-> rs[k].filename]

(***************************************************************************)
(* C1  Outermost wins (regex parser)                                       *)
(***************************************************************************)
\* lines i..j are a well-formed block: a Start line, an End line of the
\* same name that is the first End line of that name after it, and at least
\* one line between them
Block(ls, i, j) ==
    /\ i + 2 <= j
    /\ IsStart(ls[i])
    /\ IsEnd(ls[j])
    /\ MarkerName(ls[j]) = MarkerName(ls[i])
    /\ \A h \in (i + 1)..(j - 1) : ~EndsName(ls[h], MarkerName(ls[i]))

Blocks(ls) == {b \in (1..Len(ls)) \X (1..Len(ls)) : Block(ls, b[1], b[2])}

\* pairs << A, B >> of blocks with different names, A fully containing B
NestedPairs(ls) ==
    {ab \in Blocks(ls) \X Blocks(ls) :
        /\ ab[1][1] < ab[2][1]
        /\ ab[2][2] < ab[1][2]
        /\ MarkerName(ls[ab[1][1]]) # MarkerName(ls[ab[2][1]])}

\* the block on lines i..j is one of the returned files
Returned(ls, i, j) ==
    \E x \in 1..Len(outerRanges) :
        /\ outerRanges[x].start = LineStart(ls, i)
        /\ outerRanges[x].end = LineEnd(ls, j)
        /\ outerRanges[x].filename = Stripped(MarkerName(ls[i]))
        /\ files[x] = Stripped(MarkerName(ls[i]))

\* some returned file has the name of the block on lines i..j and spans it
ReturnedWithin(ls, i, j) ==
    \E x \in 1..Len(outerRanges) :
        /\ outerRanges[x].start <= LineStart(ls, i)
        /\ outerRanges[x].end >= LineEnd(ls, j)
        /\ files[x] = Stripped(MarkerName(ls[i]))

\* a returned file starts at the Start line k or ends at the End line l
ReturnedApart(ls, k, l) ==
    \E x \in 1..Len(outerRanges) :
        \/ outerRanges[x].start = LineStart(ls, k)
        \/ outerRanges[x].end = LineEnd(ls, l)

\* some Start marker before line i has an End line of its name after line i
ReachedOver(ls, i) ==
    \E h \in 1..(i - 1) : \E m \in StartNamesIn(ls[h]) :
        \E g \in (i + 1)..Len(ls) : EndsName(ls[g], m)

GoodNames == NamesOf(ExpectedRanges(lines, Flat.segs))

\* no two well-formed blocks of the text carry the same name
DistinctGoodNames ==
    \A k \in 1..Len(GoodNames) : \A o \in 1..Len(GoodNames) :
        GoodNames[k] = GoodNames[o] => k = o

\* C2: when the text is made of well-formed disjoint blocks of pairwise
\* different names and one block whose Start X is closed by End Y (X # Y),
\* with no End X anywhere after it, the returned files are exactly the
\* well-formed blocks, in order: no file comes from X or Y.
C2_NameMismatchRejected ==
    (/\ pc = "parsed"
     /\ Flat.ok
     /\ DistinctGoodNames
     /\ KindsOf(Flat.segs) \subseteq {"good", "broken"}
     /\ \E b \in 1..Len(Flat.segs) :
           /\ Flat.segs[b].kind = "broken"
           /\ \A o \in 1..Len(Flat.segs) :
                 /\ (Flat.segs[o].kind = "broken" => o = b)
                 /\ (o > b => Flat.segs[o].name # Flat.segs[b].name))
    => files = GoodNames

\* C3: for a text made of N disjoint well-formed blocks the returned list
\* has exactly N entries, the names of the blocks in textual order.
C3_MultiplicityAndOrder ==
    (/\ pc = "parsed"
     /\ Flat.ok
     /\ KindsOf(Flat.segs) \subseteq {"good"})
    => /\ Len(files) = Len(Flat.segs)
       /\ files = GoodNames

\* C4: End lines outside any block (a leading End, a repeated End) yield no
\* file and leave every well-formed block returned: in a text of disjoint
\* well-formed blocks of pairwise different names and such End lines, the
\* returned files are exactly the well-formed blocks, in order.
C4_OrphanTolerance ==
    (/\ pc = "parsed"
     /\ Flat.ok
     /\ DistinctGoodNames
     /\ KindsOf(Flat.segs) \subseteq {"good", "orphan"}
     /\ "orphan" \in KindsOf(Flat.segs))
    => files = GoodNames

\* C10: when the text is two disjoint well-formed blocks of one name with
\* different non-empty contents, the result keeps two entries, each with
\* its own content (an entry's content is what parsedFiles holds for its
\* name).
C10_NoDeduplication ==
    (/\ pc = "parsed"
     /\ Flat.ok
     /\ Len(Flat.segs) = 2
     /\ KindsOf(Flat.segs) = {"good"}
     /\ Flat.segs[1].name = Flat.segs[2].name
     /\ RangeOf(lines, Flat.segs[1]).content # RangeOf(lines, Flat.segs[2]).content
     /\ RangeOf(lines, Flat.segs[1]).content # << >>
     /\ RangeOf(lines, Flat.segs[2]).content # << >>)
    => \A k \in 1..2 :
          /\ Len(files) = 2
          /\ files[k] = RangeOf(lines, Flat.segs[k]).filename
          /\ parsedFiles[files[k]] = RangeOf(lines, Flat.segs[k]).content

(***************************************************************************)
(* C5, C6  The line parser of file-processor.js                            *)
(***************************************************************************)
\* C5: a Start line with no End line after it yields no file: a text of one
\* FILENAME line and content lines yields zero files, and no text yields
\* more files than it has END lines.
C5_StrictEndRequired ==
    pc = "fp_parsed" =>
        /\ Len(fpFiles) <= Cardinality({i \in 1..Len(lines) : startsWith(lines[i], END_LIT)})
        /\ (/\ Len(lines) >= 2
            /\ IsStart(lines[1])
            /\ \A i \in 2..Len(lines) : IsPlain(lines[i]))
           => fpFiles = << >>

\* C6: every recorded path is the trimmed name of a `=== FILENAME: <name>
\* ===` line of the text, and never holds the closing ` ===`.
C6_NameCapture ==
    pc = "fp_parsed" =>
        \A k \in 1..Len(fpFiles) :
            /\ \E i \in 1..Len(lines) :
                  IsStart(lines[i]) /\ fpFiles[k].path = Stripped(MarkerName(lines[i]))
            /\ \A p \in 1..Len(fpFiles[k].path) : ~HasAt(fpFiles[k].path, p, CLOSE_LIT)

(***************************************************************************)
(* C7, C8, C9  White space and the line grammar (regex parser)             *)
(***************************************************************************)
\* C7: a block whose two markers carry the name padded with the same
\* spaces is resolved, and its returned name is the bare name: no returned
\* name starts or ends with white space.
C7_WhitespaceTolerance ==
    pc = "parsed" =>
        /\ \A x \in 1..Len(files) :
              files[x] # << >> =>
                  ~IsSpace(files[x][1]) /\ ~IsSpace(files[x][Len(files[x])])
        /\ \A b \in Blocks(lines) : \A n \in Names :
              (/\ lines[b[1]] = PSL(n)
               /\ lines[b[2]] = PEL(n)
               /\ ~ReachedOver(lines, b[1]))
              => \E x \in 1..Len(outerRanges) :
                    /\ outerRanges[x].start = LineStart(lines, b[1])
                    /\ files[x] = << n >>

\* the text is one padded block and the parse returned its bare name
C7_Witness ==
    /\ pc = "parsed"
    /\ pass = 1
    /\ lines = << PSL("a"), << "x" >>, PEL("a") >>
    /\ files = << << "a" >> >>
    /\ parsedFiles[<< "a" >>] = << "x" >>

\* C8: a start tag that follows other text on its line is no Start marker:
\* every returned file starts at the beginning of a line.
C8_ExactLineGrammar ==
    pc = "parsed" =>
        \A x \in 1..Len(outerRanges) :
            outerRanges[x].start = 0 \/ codeOutput[outerRanges[x].start] = "nl"

\* C9: parsing the single file of a parse again, wrapped in fresh markers
\* of its name, returns one file with the same name and the same content.
C9_TrimIdempotent ==
    (pc = "parsed" /\ pass = 2) =>
        /\ files = << firstFile[1].filename >>
        /\ parsedFiles[files[1]] = firstFile[1].content

(***************************************************************************)
(* C11, C12  The stack-based resolvers                                     *)
(***************************************************************************)
\* [correct block][Start broken, End different][another block]
MalformedBlocks ==
    join(flatten(<< Good("c", "x"), Broken("b", "d"), Good("a", "x") >>))

TwoValidFiles ==
    << [filename |-> << "c" >>, content |-> << "x" >>],
       [filename |-> << "a" >>, content |-> << "x" >>] >>

\* C11: a Start that never receives a matching End does not suppress later
\* blocks: for the text [correct block][Start broken, End different]
\* [another block] each stack-based resolver returns exactly the two files
\* correct and another.
C11_UnmatchedStartKeepsLater ==
    codeOutput = MalformedBlocks =>
        /\ (robust.done => robust.files = TwoValidFiles)
        /\ (fixed.done => fixed.files = TwoValidFiles)

\* the blocks a resolver keeps, as (name, start, end)
Span(r) == [filename |-> r.filename, startPos |-> r.startPos, endPos |-> r.endPos]
KeptByStackEmpty ==
    {Span(robust.validRanges[k]) :
        k \in {j \in 1..Len(robust.validRanges) : IsOuter(robust.validRanges[j])}}
KeptByDepthAtPush ==
    {Span(fixed.validRanges[k]) :
        k \in {j \in 1..Len(fixed.validRanges) : IsDepth0(fixed.validRanges[j])}}

\* C12: the two definitions of nestingDepth agree on every marker sequence:
\* filtering on the depth tagged at push time (= 0) and filtering on "stack
\* empty after the pop" keep the same blocks.
C12_DepthDefinitionsAgree ==
    (robust.done /\ fixed.done) => KeptByStackEmpty = KeptByDepthAtPush

(***************************************************************************)
(* C13  The ranges of the first pass (regex parser)                        *)
(***************************************************************************)
\* C13: the ranges collected by the first pass never overlap (each starts
\* at or after the end of the one before), so no returned block lies inside
\* another and the second pass removes nothing: outerRanges = foundRanges.
C13_RangesNeverOverlap ==
    pc = "parsed" =>
        /\ \A i \in 1..Len(foundRanges) : \A j \in 1..Len(foundRanges) :
              i < j => foundRanges[i].end <= foundRanges[j].start
        /\ \A i \in 1..Len(outerRanges) : \A j \in 1..Len(outerRanges) :
              ~Contains(outerRanges[i], outerRanges[j])
        /\ outerRanges = foundRanges

\* a parse of a text with a block inside a block found two ranges
C13_Witness ==
    /\ pc = "parsed"
    /\ NestedPairs(lines) # {}
    /\ Len(foundRanges) >= 2
    /\ outerRanges = foundRanges

(***************************************************************************)
(* C15  isDangerousPath                                                    *)
(***************************************************************************)
\* the segments of a path name: the runs between slashes
RECURSIVE segments(_)
segments(s) ==
    LET sl == {i \in 1..Len(s) : s[i] = "/"}
    IN  IF sl = {} THEN << s >>
        ELSE << SubSeq(s, 1, Min(sl) - 1) >> \o segments(SubSeq(s, Min(sl) + 1, Len(s)))

HasTraversal(name) ==
    \E k \in 1..Len(segments(name)) : segments(name)[k] = << ".", "." >>

\* the segments that remain when the name is resolved: empty segments
\* (doubled slashes) and `.` segments drop out
IsRealSegment(seg) == seg # << >> /\ seg # << "." >>

\* an absolute name with something below the reserved directory d
ResolvesUnder(name, d) ==
    LET real == SelectSeq(SubSeq(segments(name), 1, Len(segments(name)) - 1),
                          IsRealSegment)
    IN  /\ Len(name) >= 1
        /\ name[1] = "/"
        /\ ~HasTraversal(name)
        /\ Len(real) >= 1
        /\ real[1] = << d >>

Unsafe(name) ==
    \/ HasTraversal(name)
    \/ includes(name, << "NUL" >>)
    \/ \E d \in dangerousPaths : ResolvesUnder(name, d)
    \/ length(name) > 255

\* C15: isDangerousPath rejects every unsafe name (a traversal segment, a
\* null byte, a name that resolves under a reserved prefix however it is
\* spelled, more than 255 characters), and a name of exactly 255 characters
\* that is unsafe in no other way is not rejected.
C15_RejectsEveryUnsafeName ==
    dangerous.done =>
        /\ (Unsafe(filename) => dangerous.value)
        /\ (length(filename) = 255 /\ ~Unsafe(filename) => ~dangerous.value)

(***************************************************************************)
(* C16  isPlaceholderFile                                                  *)
(***************************************************************************)
\* the content after trimming starts with open and ends with close
Wrapped(s, open, close) == Len(s) >= 2 /\ s[1] = open /\ s[Len(s)] = close

StartsWithMarker(s) ==
    Len(s) >= 1 /\ s[1] \in {"TODO:", "todo:", "FIXME:", "fixme:"}

HasPlaceholderWord(s) ==
    \E i \in 1..Len(s) : s[i] \in {"placeholder", "Placeholder"}

MatchesContentRule(s) ==
    \/ Wrapped(s, "[", "]")
    \/ Wrapped(s, "<", ">")
    \/ StartsWithMarker(s)
    \/ HasPlaceholderWord(s)

\* C16: isPlaceholderFile rejects every content that, trimmed, is wrapped
\* in [ ] or < > (on one line or several), starts with TODO: or FIXME: in
\* any letter case, holds the word placeholder, or has fewer than 10
\* characters; a content of exactly 10 characters that matches no pattern,
\* under a name that is not generic, is not rejected.
C16_RejectsPlaceholderContent ==
    placeholder.done =>
        /\ (MatchesContentRule(trim(content)) \/ length(trim(content)) < 10)
              => placeholder.value
        /\ (/\ length(trim(content)) = 10
            /\ ~MatchesContentRule(trim(content))
            /\ filename = RealName)
              => ~placeholder.value

(***************************************************************************)
(* C14  The classifying parser of llm-client.js                            *)
(***************************************************************************)
Rejected(r) == isPlaceholderFile(r.filename, r.content) \/ isDangerousPath(r.filename)

ScenarioD == join(BlockOf(GenericName, BracketContent))

\* C14: a resolved block that isPlaceholderFile or isDangerousPath rejects
\* is never handed to createFile and never appears in the returned files:
\* createFile gets exactly the resolved blocks that pass both tests, in
\* order, every returned name is one createFile got, and the block
\* path/to/file.ext with content [complete file content] yields no file.
C14_RejectedNeverMaterialized ==
    llm.done =>
        /\ llm.created =
              LET kept == SelectSeq(llm.outerRanges, LAMBDA r : ~Rejected(r))
              IN  [k \in 1..Len(kept) |->
                      [filename |-> kept[k].filename, content |-> kept[k].content]]
        /\ \A k \in 1..Len(llm.created) : ~Rejected(llm.created[k])
        /\ \A k \in 1..Len(llm.files) :
              \E c \in 1..Len(llm.created) : llm.created[c].filename = llm.files[k]
        /\ Len(llm.files) <= Len(llm.created)
        /\ (codeOutput = ScenarioD => llm.created = << >> /\ llm.files = << >>)

\* a parse resolved a dangerous path with real content and a real file,
\* and materialized only the real file
C14_Witness ==
    /\ llm.done
    /\ Len(llm.outerRanges) = 2
    /\ llm.outerRanges[1].filename = EtcName
    /\ llm.outerRanges[1].content = RealContent
    /\ llm.created = << [filename |-> RealName, content |-> RealContent] >>
    /\ llm.files = << RealName >>

(***************************************************************************)
(* C17 - C20  The iteration loop                                           *)
(***************************************************************************)
Count(e) == Cardinality({i \in 1..Len(log) : log[i].ev = e})

StepBudgetKept ==
    /\ Count("generate") <= maxSteps
    /\ (lpc = "step" => currentStep >= 1 /\ currentStep <= maxSteps)
    /\ (lpc \in {"after", "done"} => left \in {"break", "budget"})
    /\ (left = "budget" => Count("generate") = maxSteps)
    /\ (lpc \in {"start", "loop", "step"} => left = "no")

\* C17: a run performs at most maxSteps generation steps, the step counter
\* never exceeds maxSteps while a step executes, the loop is left only
\* because a step ended it or because the budget is exhausted, and every
\* run ends.
C17_StepBudget ==
    [] StepBudgetKept /\ <>(lpc \in {"done", "failed"})

\* a run used the whole budget: five steps, the loop left on its test
C17_Witness ==
    /\ program = "main"
    /\ lpc = "done"
    /\ left = "budget"
    /\ Count("generate") = maxSteps

YesAnswers == {<< "y" >>, << "y", "e", "s" >>}

\* C19: with YOLO mode off, runEvalScript as executeStep calls it writes
\* and runs the eval script of a step only after the user answered y or yes
\* (letter case aside) to the prompt of that step; after any other answer it
\* returns the skipped result and nothing of that step is written or run.
C19_ManualConfirmation ==
    (program = "main" /\ ~YOLO /\ ~GITHUB_ACTIONS) =>
        /\ \A i \in 1..Len(log) :
              log[i].ev \in {"writeScript", "execScript"} =>
                  \E j \in 1..(i - 1) :
                      /\ log[j].ev = "prompt"
                      /\ log[j].step = log[i].step
                      /\ toLowerCase(log[j].arg) \in YesAnswers
        /\ \A j \in 1..Len(log) :
              (log[j].ev = "prompt" /\ toLowerCase(log[j].arg) \notin YesAnswers) =>
                  /\ j < Len(log)
                  /\ log[j + 1] = [ev |-> "evalResult", step |-> log[j].step,
                                   arg |-> << "skipped" >>]
                  /\ \A i \in 1..Len(log) :
                        log[i].step = log[j].step =>
                            log[i].ev \notin {"writeScript", "execScript"}

\* a local run in which the user agreed to the script of step 1, which ran
\* and failed, and declined the script of step 2
C19_Witness ==
    /\ program = "main"
    /\ ~YOLO /\ ~GITHUB_ACTIONS
    /\ \E j \in 1..Len(log) :
          log[j].ev = "prompt" /\ log[j].arg = << "Y", "e", "s" >> /\ log[j].step = 1
    /\ \E i \in 1..Len(log) : log[i].ev = "execScript" /\ log[i].step = 1
    /\ \E j \in 1..Len(log) :
          log[j].ev = "prompt" /\ log[j].arg = << "n" >> /\ log[j].step = 2
    /\ lpc = "done"

\* C20: a run of script.js outside GitHub Actions only commits locally: it
\* never executes git push.
C20_NoPushInLocalMode ==
    (program = "script" /\ ~GITHUB_ACTIONS) => Count("push") = 0

(***************************************************************************)
(* C21 - C25  What ends a step and what follows the loop                   *)
(***************************************************************************)
\* the answers that decline the prompt: n, no and Enter
NoAnswers == {<< "n" >>, << "n", "o" >>, << >>}

\* C21: in script.js, once the user declined the eval prompt of a step
\* (n, no or Enter), the loop is left by that step as after a successful
\* eval: no further model call is made.
C21_SkipMeansSuccess ==
    program = "script" =>
        \A j \in 1..Len(log) :
            (log[j].ev = "prompt" /\ toLowerCase(log[j].arg) \in NoAnswers) =>
                /\ \A i \in (j + 1)..Len(log) : log[i].ev # "generate"
                /\ (j = Len(log) => (lpc = "after" /\ left = "break"))

\* step s of the run logged event e with argument a
InStep(s, e, a) ==
    \E i \in 1..Len(log) : log[i] = [ev |-> e, step |-> s, arg |-> a]

\* step s of main.js is over
StepOver(s) == s < currentStep \/ lpc \in {"loop", "after", "done"}

\* step s of main.js did not end the loop: the loop test came next
Proceeds(s) ==
    \/ s < currentStep
    \/ s = currentStep /\ (lpc = "loop" \/ left = "budget")

\* files were written and committed in step s
WrittenAndCommitted(s) ==
    InStep(s, "parse", << "n" >>) /\ InStep(s, "commit", << "ok" >>)

EvalEvents == {"prompt", "writeScript", "execScript", "evalResult"}

\* C23: inside one step of executeStep the files are written before the
\* commit and the commit comes before the eval script; no eval script is
\* run in a step that wrote zero files or whose commit failed.
C23_WriteCommitEvalOrder ==
    program = "main" =>
        /\ \A k \in 1..Len(log) :
              log[k].ev = "commit" =>
                  \E j \in 1..(k - 1) :
                      log[j] = [ev |-> "parse", step |-> log[k].step, arg |-> << "n" >>]
        /\ \A i \in 1..Len(log) :
              log[i].ev \in EvalEvents =>
                  /\ \E k \in 1..(i - 1) :
                        log[k] = [ev |-> "commit", step |-> log[i].step, arg |-> << "ok" >>]
                  /\ ~InStep(log[i].step, "parse", << "0" >>)
                  /\ ~InStep(log[i].step, "commit", << "failed" >>)

\* a run whose step 1 wrote, committed and ran a failing script and whose
\* step 2 wrote files that could not be committed
C23_Witness ==
    /\ program = "main"
    /\ lpc = "done"
    /\ InStep(1, "execScript", << >>)
    /\ InStep(2, "commit", << "failed" >>)
    /\ log[Len(log) - 1] = [ev |-> "commit", step |-> 2, arg |-> << "failed" >>]

\* the final validation command of this run failed
TestsFailed ==
    \E i \in 1..Len(log) : log[i].ev = "testCommand" /\ log[i].arg = << "fail" >>

C25_WarningOnlyOnBudget ==
    (program = "main" /\ Count("warnMaximumSteps") > 0) => left = "budget"

(***************************************************************************)
(* C26 - C27  The write loop and the dry run of parseAndWriteFiles         *)
(***************************************************************************)
\* parseAndWriteFiles of file-processor.js or of robust-file-parser.js returned
Wrote == pc \in {"fp_parsed", "rfp_parsed"}

\* the paths of the parsed files, in parse order
Paths == [i \in 1..Len(fpFiles) |-> fpFiles[i].path]

\* neither mkdir nor writeFile fails for the i-th parsed file
WriteSucceeds(i) ==
    LET dir == dirname(fpFiles[i].path)
    IN  /\ FaultOf(fault, i) # "writeFile"
        /\ IF createDirectories /\ dir # << "." >>
           THEN FaultOf(fault, i) # "mkdir"
           ELSE dir = << "." >> \/ dir \in Disk0.dirs

\* the indices of the files whose write succeeds, in parse order
Succeeded == SelectSeq([i \in 1..Len(fpFiles) |-> i], WriteSucceeds)

\* C26: a failure of mkdir or writeFile for one parsed file is caught and
\* does not keep the remaining files from being written: the call returns
\* exactly the paths whose write succeeded, in parse order, and each of
\* them is on disk with the content of its last successful write.
C26_WriteFailureIsolation ==
    (Wrote /\ ~dryRun) =>
        /\ returned = [k \in 1..Len(Succeeded) |-> Paths[Succeeded[k]]]
        /\ \A k \in 1..Len(Succeeded) :
              \E f \in disk.files :
                  /\ f.path = Paths[Succeeded[k]]
                  /\ \E l \in k..Len(Succeeded) :
                        /\ f = fpFiles[Succeeded[l]]
                        /\ \A m \in (l + 1)..Len(Succeeded) :
                              Paths[Succeeded[m]] # f.path
        /\ \A f \in disk.files :
              f \in Disk0.files \/ \E k \in 1..Len(Succeeded) : f = fpFiles[Succeeded[k]]

\* three parsed files: mkdir fails for the first, writeFile for the second,
\* and the third is written and returned
C26_Witness ==
    /\ pc = "fp_parsed"
    /\ ~dryRun
    /\ createDirectories
    /\ Len(fpFiles) = 3
    /\ dirname(fpFiles[1].path) = << "lib", "/", "sub" >>
    /\ fault = << "mkdir", "writeFile", "none" >>
    /\ returned = << fpFiles[3].path >>
    /\ fpFiles[3] \in disk.files

\* C27: a dry run creates no directory and writes no file and returns the
\* paths of all parsed files in parse order; with zero parsed files the call
\* returns an empty list, dry run or not.
C27_DryRunWritesNothing ==
    Wrote =>
        /\ dryRun => (disk = Disk0 /\ returned = Paths)
        /\ Len(fpFiles) = 0 => (returned = << >> /\ disk = Disk0)

\* a dry run over two parsed files, the first in a directory that does not
\* exist
C27_Witness ==
    /\ pc = "fp_parsed"
    /\ dryRun
    /\ Len(fpFiles) = 2
    /\ dirname(fpFiles[1].path) = << "lib", "/", "sub" >>
    /\ returned = << fpFiles[1].path, fpFiles[2].path >>
    /\ disk = Disk0

(***************************************************************************)
(* C28  The regex parser and the stack resolver on well-formed inputs      *)
(***************************************************************************)
\* the name a marker line carries
NameOf(l) == Stripped(MarkerName(l))

\* Lines i.. of ls, read with the Start lines open in st (innermost last)
\* and the names seen so far, are well formed: every line is one marker or
\* holds none, every End line closes the innermost open Start line, which
\* has its name, after some content; no name comes twice; nothing is left
\* open.
RECURSIVE WellFormedFrom(_, _, _, _)
WellFormedFrom(ls, i, st, seen) ==
    IF i > Len(ls) THEN st = << >>
    ELSE IF IsStart(ls[i]) THEN
        /\ NameOf(ls[i]) \notin seen
        /\ WellFormedFrom(ls, i + 1, Append(st, i), seen \cup {NameOf(ls[i])})
    ELSE IF IsEnd(ls[i]) THEN
        /\ st # << >>
        /\ NameOf(ls[st[Len(st)]]) = NameOf(ls[i])
        /\ Stripped(join(SubSeq(ls, st[Len(st)] + 1, i - 1))) # << >>
        /\ WellFormedFrom(ls, i + 1, SubSeq(st, 1, Len(st) - 1), seen)
    ELSE IsPlain(ls[i]) /\ WellFormedFrom(ls, i + 1, st, seen)

WellFormed == WellFormedFrom(lines, 1, << >>, {})

\* the (name, content) pairs the regex parser returned
RegexPairs ==
    [i \in 1..Len(files) |-> [filename |-> files[i], content |-> parsedFiles[files[i]]]]

\* C28: on every input whose markers are each on their own line, properly
\* nested and fully matched, with pairwise distinct names and non-empty
\* contents, the regex parser and the stack resolver return the same list
\* of (name, content) pairs.
C28_ParsersAgree ==
    (pc = "parsed" /\ robust.done /\ WellFormed) => RegexPairs = robust.files

====
